---- MODULE Spec2Model ----
(***************************************************************************)
(* A model of the giturl package: NewGitURL (parse.go) and the formatters  *)
(* of GitURL (giturl.go).  A Go string is modelled as a sequence of        *)
(* one-character strings, so that slicing, searching and case folding are  *)
(* computed as the code computes them.                                     *)
(***************************************************************************)
EXTENDS Integers, Sequences, FiniteSets, TLC

VARIABLES url, gitURL, err, pc, given, call, out, src

vars == <<url, gitURL, err, pc, given, call, out, src>>

(***************************************************************************)
(* Constants of giturl.go.                                                 *)
(***************************************************************************)
ProtocolTypeSSH == 0
ProtocolTypeGit == 1
ProtocolTypeHTTP == 2
ProtocolTypeHTTPs == 3
ProtocolTypeFTP == 4
ProtocolTypeFTPs == 5
ProtocolTypeSCP == 6

ImplicitUser == <<>>
DefaultUser == <<"g", "i", "t">>

ImplicitPort == 0
DefaultSSHPort == 22
DefaultGitPort == 9418
DefaultHTTPPort == 80
DefaultHTTPsPort == 443
DefaultFTPPort == 21
DefaultFTPsPort == 990

prefixSSH == <<"s", "s", "h", ":", "/", "/">>
prefixGit == <<"g", "i", "t", ":", "/", "/">>
prefixHTTP == <<"h", "t", "t", "p", ":", "/", "/">>
prefixHTTPs == <<"h", "t", "t", "p", "s", ":", "/", "/">>
prefixFTP == <<"f", "t", "p", ":", "/", "/">>
prefixFTPs == <<"f", "t", "p", "s", ":", "/", "/">>
suffixGit == <<".", "g", "i", "t">>

\* uint16: the width of GitURL.port and of the bitSize given to ParseUint.
MaxUint16 == 65535

(***************************************************************************)
(* Library functions the code calls (strings, strconv, fmt).               *)
(***************************************************************************)
UpperLetters ==
    <<"A", "B", "C", "D", "E", "F", "G", "H", "I", "J", "K", "L", "M",
      "N", "O", "P", "Q", "R", "S", "T", "U", "V", "W", "X", "Y", "Z">>

LowerLetters ==
    <<"a", "b", "c", "d", "e", "f", "g", "h", "i", "j", "k", "l", "m",
      "n", "o", "p", "q", "r", "s", "t", "u", "v", "w", "x", "y", "z">>

DigitChars == <<"0", "1", "2", "3", "4", "5", "6", "7", "8", "9">>

\* The case folding strings.EqualFold applies to an ASCII character.
FoldTable ==
    [c \in {UpperLetters[i] : i \in 1..26} |->
        LowerLetters[CHOOSE i \in 1..26 : UpperLetters[i] = c]]

Fold(c) == IF c \in DOMAIN FoldTable THEN FoldTable[c] ELSE c

\* strings.EqualFold(s, t)
EqualFold(s, t) ==
    /\ Len(s) = Len(t)
    /\ \A i \in 1..Len(s) : Fold(s[i]) = Fold(t[i])

\* s[from:to] of Go (0-based, to excluded) on a 1-based sequence.
Slice(s, from, to) == SubSeq(s, from + 1, to)

\* strings.Index(s, sep) for a one-character sep: the 0-based index of the
\* first occurrence, or -1.  i is the 1-based position the scan is at.
RECURSIVE IndexFrom(_, _, _)
IndexFrom(s, sep, i) ==
    IF i > Len(s) THEN -1
    ELSE IF s[i] = sep THEN i - 1
    ELSE IndexFrom(s, sep, i + 1)

Index(s, sep) == IndexFrom(s, sep, 1)

\* strings.LastIndex(s, sep) for a one-character sep: the scan runs backwards.
RECURSIVE LastIndexFrom(_, _, _)
LastIndexFrom(s, sep, i) ==
    IF i < 1 THEN -1
    ELSE IF s[i] = sep THEN i - 1
    ELSE LastIndexFrom(s, sep, i - 1)

LastIndex(s, sep) == LastIndexFrom(s, sep, Len(s))

\* strings.TrimSuffix(s, "/")
TrimSuffixSlash(s) ==
    IF Len(s) >= 1 /\ s[Len(s)] = "/" THEN Slice(s, 0, Len(s) - 1) ELSE s

DigitTable == [c \in {DigitChars[i] : i \in 1..10} |->
                  (CHOOSE i \in 1..10 : DigitChars[i] = c) - 1]

IsDigit(c) == c \in DOMAIN DigitTable

DigitValue(c) == DigitTable[c]

\* The digit loop of strconv.ParseUint(s, 10, 16): n is the value so far;
\* a character that is no digit is a syntax error, a value above the
\* 16-bit maximum a range error.
RECURSIVE ParseDigits(_, _, _)
ParseDigits(s, i, n) ==
    IF i > Len(s) THEN [ok |-> TRUE, val |-> n]
    ELSE IF ~IsDigit(s[i]) THEN [ok |-> FALSE, val |-> 0]
    ELSE LET n1 == n * 10 + DigitValue(s[i])
         IN  IF n1 > MaxUint16 THEN [ok |-> FALSE, val |-> MaxUint16]
             ELSE ParseDigits(s, i + 1, n1)

\* strconv.ParseUint(s, 10, 16): the empty string is a syntax error.
ParseUint16(s) ==
    IF Len(s) = 0 THEN [ok |-> FALSE, val |-> 0] ELSE ParseDigits(s, 1, 0)

\* fmt.Sprintf("%d", n) for n >= 0
RECURSIVE FormatDecimal(_)
FormatDecimal(n) ==
    IF n < 10 THEN <<DigitChars[n + 1]>>
    ELSE FormatDecimal(n \div 10) \o <<DigitChars[(n % 10) + 1]>>

(***************************************************************************)
(* parse.go: the lexical helpers.                                          *)
(***************************************************************************)
hasPrefix(u, prefix) ==
    IF Len(u) < Len(prefix) THEN FALSE
    ELSE EqualFold(Slice(u, 0, Len(prefix)), prefix)

\* removeSuffix without its strings.TrimSuffix(url, "/").
removeSuffixNoTrim(u, suffix) ==
    IF Len(u) < Len(suffix) THEN u
    ELSE IF EqualFold(Slice(u, Len(u) - Len(suffix), Len(u)), suffix)
         THEN Slice(u, 0, Len(u) - Len(suffix))
         ELSE u

removeSuffix(u, suffix) ==
    LET t == TrimSuffixSlash(u)
    IN  IF Len(t) < Len(suffix) THEN t
        ELSE IF EqualFold(Slice(t, Len(t) - Len(suffix), Len(t)), suffix)
             THEN Slice(t, 0, Len(t) - Len(suffix))
             ELSE t

removePrefix(u, prefix) ==
    IF Len(u) < Len(prefix) THEN u
    ELSE IF EqualFold(Slice(u, 0, Len(prefix)), prefix)
         THEN Slice(u, Len(prefix), Len(u))
         ELSE u

\* cut splitting at the last occurrence of sep (strings.LastIndex).
cutAtLast(s, sep) ==
    LET i == LastIndex(s, sep)
    IN  IF i >= 0
        THEN [before |-> Slice(s, 0, i), after |-> Slice(s, i + 1, Len(s)),
              found |-> TRUE]
        ELSE [before |-> s, after |-> <<>>, found |-> FALSE]

cut(s, sep) ==
    LET i == Index(s, sep)
    IN  IF i >= 0
        THEN [before |-> Slice(s, 0, i), after |-> Slice(s, i + 1, Len(s)),
              found |-> TRUE]
        ELSE [before |-> s, after |-> <<>>, found |-> FALSE]

\* lastCut splitting at the first occurrence of sep (strings.Index).
lastCutAtFirst(s, sep) ==
    LET i == Index(s, sep)
    IN  IF i >= 0
        THEN [before |-> Slice(s, 0, i), after |-> Slice(s, i + 1, Len(s)),
              found |-> TRUE]
        ELSE [before |-> <<>>, after |-> s, found |-> FALSE]

lastCut(s, sep) ==
    LET i == LastIndex(s, sep)
    IN  IF i >= 0
        THEN [before |-> Slice(s, 0, i), after |-> Slice(s, i + 1, Len(s)),
              found |-> TRUE]
        ELSE [before |-> <<>>, after |-> s, found |-> FALSE]

(***************************************************************************)
(* The values NewGitURL returns: a *GitURL (nil or an entity) and an error *)
(* (nil, or ErrInvalidURL wrapped with a reason and, for the port error,   *)
(* the offending text).                                                    *)
(***************************************************************************)
NilGitURL == [nil |-> TRUE]

GitURL(protocol, port, user, host, path, repo, raw) ==
    [nil |-> FALSE, protocol |-> protocol, port |-> port, user |-> user,
     host |-> host, path |-> path, repo |-> repo, raw |-> raw]

NilError == [wraps |-> "nil", reason |-> "", text |-> <<>>]

ErrMissingPath ==
    [wraps |-> "ErrInvalidURL", reason |-> "missing path to repo", text |-> <<>>]

ErrIllegalPort(port) ==
    [wraps |-> "ErrInvalidURL", reason |-> "illegal port", text |-> port]

ErrExpectedColon ==
    [wraps |-> "ErrInvalidURL", reason |-> "expected ':'", text |-> <<>>]

Return(g, e) == [gitURL |-> g, err |-> e]

\* The shared tail of the five scheme parsers: cut the host segment from the
\* path at the first "/", the port from the host at the first ":", and the
\* repo from the path at the last "/".
parseHostPortPath(protocol, defaultPort, user, left, raw) ==
    LET c1 == cut(left, "/")
    IN  IF ~c1.found THEN Return(NilGitURL, ErrMissingPath)
        ELSE LET c2 == cut(c1.before, ":")
                 pr == ParseUint16(c2.after)
                 lc == lastCut(c1.after, "/")
             IN  IF c2.found /\ ~pr.ok
                 THEN Return(NilGitURL, ErrIllegalPort(c2.after))
                 ELSE Return(GitURL(protocol,
                                    IF c2.found THEN pr.val % (MaxUint16 + 1)
                                    ELSE defaultPort,
                                    user, c2.before, lc.before, lc.after, raw),
                             NilError)

parseSSHURL(u) ==
    LET left0 == removePrefix(removeSuffix(u, suffixGit), prefixSSH)
        c0 == cut(left0, "@")
        user == IF c0.found THEN c0.before ELSE <<>>
        left == IF c0.found THEN c0.after ELSE left0
    IN  parseHostPortPath(ProtocolTypeSSH, DefaultSSHPort, user, left, u)

parseGitURL(u) ==
    LET left == removePrefix(removeSuffix(u, suffixGit), prefixGit)
    IN  parseHostPortPath(ProtocolTypeGit, DefaultGitPort, <<>>, left, u)

\* The protocol field keeps its zero value (ProtocolTypeSSH) and the port its
\* zero value unless one of the two prefix tests assigns them.
parseHTTPURL(u) ==
    LET left0 == removeSuffix(u, suffixGit)
        isHTTP == hasPrefix(u, prefixHTTP)
        isHTTPs == hasPrefix(u, prefixHTTPs)
        left1 == IF isHTTP THEN removePrefix(left0, prefixHTTP) ELSE left0
        left == IF isHTTPs THEN removePrefix(left1, prefixHTTPs) ELSE left1
        protocol == IF isHTTPs THEN ProtocolTypeHTTPs
                    ELSE IF isHTTP THEN ProtocolTypeHTTP ELSE 0
        defaultPort == IF protocol = ProtocolTypeHTTPs THEN DefaultHTTPsPort
                       ELSE IF protocol = ProtocolTypeHTTP THEN DefaultHTTPPort
                       ELSE 0
    IN  parseHostPortPath(protocol, defaultPort, <<>>, left, u)

parseFTPURL(u) ==
    LET left0 == removeSuffix(u, suffixGit)
        isFTP == hasPrefix(u, prefixFTP)
        isFTPs == hasPrefix(u, prefixFTPs)
        left1 == IF isFTP THEN removePrefix(left0, prefixFTP) ELSE left0
        left == IF isFTPs THEN removePrefix(left1, prefixFTPs) ELSE left1
        protocol == IF isFTPs THEN ProtocolTypeFTPs
                    ELSE IF isFTP THEN ProtocolTypeFTP ELSE 0
        defaultPort == IF protocol = ProtocolTypeFTPs THEN DefaultFTPsPort
                       ELSE IF protocol = ProtocolTypeFTP THEN DefaultFTPPort
                       ELSE 0
    IN  parseHostPortPath(protocol, defaultPort, <<>>, left, u)

parseSCPURL(u) ==
    LET left0 == removeSuffix(u, suffixGit)
        c0 == cut(left0, "@")
        user == IF c0.found THEN c0.before ELSE <<>>
        left == IF c0.found THEN c0.after ELSE left0
        c1 == cut(left, ":")
        lc == lastCut(c1.after, "/")
    IN  IF ~c1.found THEN Return(NilGitURL, ErrExpectedColon)
        ELSE Return(GitURL(ProtocolTypeSCP, DefaultSSHPort, user, c1.before,
                           lc.before, lc.after, u),
                    NilError)

parseURL(u) ==
    IF hasPrefix(u, prefixSSH) THEN parseSSHURL(u)
    ELSE IF hasPrefix(u, prefixGit) THEN parseGitURL(u)
    ELSE IF hasPrefix(u, prefixHTTP) \/ hasPrefix(u, prefixHTTPs)
         THEN parseHTTPURL(u)
    ELSE IF hasPrefix(u, prefixFTP) \/ hasPrefix(u, prefixFTPs)
         THEN parseFTPURL(u)
    ELSE parseSCPURL(u)

(***************************************************************************)
(* giturl.go: NewGitURL and the formatters of a GitURL g.                  *)
(***************************************************************************)
NewGitURL(u) == parseURL(u)

\* hostPart testing and printing the entity's own port, not the argument.
hostPartOwnPort(g, port) ==
    IF g.port # ImplicitPort THEN g.host \o <<":">> \o FormatDecimal(g.port)
    ELSE g.host

\* hostPart of the four scheme formatters: the host, then ":%d" of the port
\* argument unless it is ImplicitPort.
hostPart(g, port) ==
    IF port # ImplicitPort THEN g.host \o <<":">> \o FormatDecimal(port)
    ELSE g.host

\* pathPart of the four scheme formatters: fmt.Sprintf("/%s/%s", path, repo),
\* then suffixGit when withSuffix.
pathPart(g, withSuffix) ==
    <<"/">> \o g.path \o <<"/">> \o g.repo
        \o (IF withSuffix THEN suffixGit ELSE <<>>)

ToSSHFormat(g, user, port, withSuffix) ==
    LET userPart == IF user # ImplicitUser THEN user \o <<"@">> ELSE <<>>
    IN  prefixSSH \o userPart \o hostPart(g, port) \o pathPart(g, withSuffix)

ToGitFormat(g, port, withSuffix) ==
    prefixGit \o hostPart(g, port) \o pathPart(g, withSuffix)

ToHTTPFormat(g, port, isSecure, withSuffix) ==
    LET prefixPart == IF isSecure THEN prefixHTTPs ELSE prefixHTTP
    IN  prefixPart \o hostPart(g, port) \o pathPart(g, withSuffix)

ToFTPFormat(g, port, isSecure, withSuffix) ==
    LET prefixPart == IF isSecure THEN prefixFTPs ELSE prefixFTP
    IN  prefixPart \o hostPart(g, port) \o pathPart(g, withSuffix)

ToSCPFormat(g, user, withSuffix) ==
    LET userPart == IF user # ImplicitUser THEN user \o <<"@">> ELSE <<>>
    IN  userPart \o g.host \o <<":">> \o g.path \o <<"/">> \o g.repo
            \o (IF withSuffix THEN suffixGit ELSE <<>>)

(***************************************************************************)
(* Bounds of the model.                                                    *)
(***************************************************************************)
\* Longest token string appended to a scheme prefix in the arbitrary inputs.
MaxTokens == 5

\* Most parent-path segments of an assembled input.
MaxSegs == 2

(***************************************************************************)
(* The inputs NewGitURL is called with.                                    *)
(***************************************************************************)
gitlabCom == <<"g", "i", "t", "l", "a", "b", ".", "c", "o", "m">>

charlieWto == <<"c", "h", "a", "r", "l", "i", "e", "/", "w", "t", "o">>

bombGit == <<"b", "o", "m", "b", ".", "g", "i", "t">>

gerritHost == <<"1", "1", "9", ".", "9", "1", ".", "3", "3", ".", "5", "8">>

allProjects == <<"A", "l", "l", "-", "P", "r", "o", "j", "e", "c", "t", "s">>

adminAt == <<"a", "d", "m", "i", "n", "@">>

gitAt == <<"g", "i", "t", "@">>

\* The URLs of ParseURLTestCases and of the formatter tests.
TestURLs ==
    LET tail == <<"/">> \o charlieWto \o <<"/">> \o bombGit
    IN  { prefixSSH \o gitAt \o gitlabCom \o tail,
          prefixSSH \o gitAt \o gitlabCom \o <<":", "2", "2">> \o tail,
          prefixSSH \o gitlabCom \o <<":", "2", "2">> \o tail,
          prefixGit \o gitlabCom \o tail,
          prefixGit \o gitlabCom \o <<":", "1", "2", "3", "4", "5">> \o tail,
          prefixHTTP \o gitlabCom \o tail,
          prefixHTTP \o gitlabCom \o <<":", "8", "0", "8", "0">> \o tail,
          prefixHTTPs \o gitlabCom \o tail,
          prefixFTP \o gitlabCom \o tail,
          prefixFTPs \o gitlabCom \o tail,
          prefixFTPs \o gitlabCom \o <<":", "4", "4", "3">> \o tail,
          gitAt \o gitlabCom \o <<":">> \o charlieWto \o <<"/">> \o bombGit,
          prefixSSH \o adminAt \o gerritHost
              \o <<":", "2", "9", "4", "1", "8", "/">> \o allProjects,
          prefixSSH \o adminAt \o gerritHost
              \o <<":", "6", "5", "5", "3", "6", "/">> \o allProjects,
          gitAt \o gitlabCom \o tail }

\* ssh inputs whose path holds an "@": after it a ":80", and after a port.
AtSignInPathURLs ==
    { prefixSSH \o <<"h", "/", "x", "@", "y", ":", "8", "0", "/", "r">>,
      prefixSSH \o <<"h", ":", "8", "0", "/", "x", "@", "y", "/", "r">> }

\* Inputs with an empty host, an empty repo, or consecutive "/".
IrregularURLs ==
    { prefixSSH \o <<"/", "x">>,
      <<"h", ":">>,
      prefixSSH \o <<"h", "/">> \o suffixGit,
      prefixSSH \o <<"h", "/", "/", "a", "/", "b">>,
      <<"h", ":", "a", "/", "/", "b">> }

RECURSIVE Flatten(_)
Flatten(ss) == IF ss = <<>> THEN <<>> ELSE Head(ss) \o Flatten(Tail(ss))

\* All sequences over S of length at most n.
SeqsUpTo(S, n) == UNION { [1..k -> S] : k \in 0..n }

\* The scheme prefix in lower case and in mixed case.
MixedCase(prefix) ==
    [i \in 1..Len(prefix) |->
        IF i % 2 = 1 /\ \E k \in 1..26 : LowerLetters[k] = prefix[i]
        THEN UpperLetters[CHOOSE k \in 1..26 : LowerLetters[k] = prefix[i]]
        ELSE prefix[i]]

SchemePrefixes ==
    {prefixSSH, prefixGit, prefixHTTP, prefixHTTPs, prefixFTP, prefixFTPs}

FuzzPrefixes == SchemePrefixes \cup {MixedCase(prefixSSH), <<>>}

FuzzTokens == { <<"8">>, <<"/">>, <<":">>, <<"@">>, suffixGit }

\* Arbitrary inputs: an optional scheme prefix, then up to MaxTokens tokens.
FuzzInputs ==
    { p \o Flatten(ts) : p \in FuzzPrefixes, ts \in SeqsUpTo(FuzzTokens, MaxTokens) }

NoGiven == [kind |-> "literal"]

NoCall == [fn |-> "none"]

Init ==
    /\ url \in FuzzInputs \cup TestURLs \cup AtSignInPathURLs \cup IrregularURLs
    /\ gitURL = NilGitURL
    /\ err = NilError
    /\ pc = "init"
    /\ given = NoGiven
    /\ call = NoCall
    /\ out = <<>>
    /\ src = NilGitURL

\* A caller passes its input to NewGitURL and keeps what it returns.
CallNewGitURL ==
    /\ pc = "init"
    /\ LET r == NewGitURL(url)
       IN  /\ gitURL' = r.gitURL
           /\ err' = r.err
    /\ pc' = "parsed"
    /\ UNCHANGED <<url, given, call, out, src>>

Next == CallNewGitURL

Spec == Init /\ [][Next]_vars

(***************************************************************************)
(* Assembled inputs: the caller builds the input from the parts the formats *)
(* of giturl.go name (scheme, user, host, port, path segments, repo, the    *)
(* ".git" suffix, a trailing "/") and remembers the parts in given.         *)
(***************************************************************************)
Schemes == {"ssh", "git", "http", "https", "ftp", "ftps", "scp"}

SchemePrefix(scheme) ==
    CASE scheme = "ssh" -> prefixSSH
      [] scheme = "git" -> prefixGit
      [] scheme = "http" -> prefixHTTP
      [] scheme = "https" -> prefixHTTPs
      [] scheme = "ftp" -> prefixFTP
      [] scheme = "ftps" -> prefixFTPs
      [] scheme = "scp" -> <<>>

SchemeProtocol(scheme) ==
    CASE scheme = "ssh" -> ProtocolTypeSSH
      [] scheme = "git" -> ProtocolTypeGit
      [] scheme = "http" -> ProtocolTypeHTTP
      [] scheme = "https" -> ProtocolTypeHTTPs
      [] scheme = "ftp" -> ProtocolTypeFTP
      [] scheme = "ftps" -> ProtocolTypeFTPs
      [] scheme = "scp" -> ProtocolTypeSCP

SchemeDefaultPort(scheme) ==
    CASE scheme = "ssh" -> DefaultSSHPort
      [] scheme = "git" -> DefaultGitPort
      [] scheme = "http" -> DefaultHTTPPort
      [] scheme = "https" -> DefaultHTTPsPort
      [] scheme = "ftp" -> DefaultFTPPort
      [] scheme = "ftps" -> DefaultFTPsPort
      [] scheme = "scp" -> DefaultSSHPort

GivenUsers == {<<>>, DefaultUser}

GivenHosts == {<<"h">>, <<"s", "s", "h">>}

GivenPorts == {<<>>, <<"8", "0", "8", "0">>}

GivenSegs == {<<"p">>}

GivenRepos == {<<"g", "i", "t">>, <<"r", ".", "G", "I", "T">>}

GivenSuffixes == {<<>>, suffixGit}

RECURSIVE Join(_)
Join(segs) ==
    IF Len(segs) = 0 THEN <<>>
    ELSE IF Len(segs) = 1 THEN segs[1]
    ELSE segs[1] \o <<"/">> \o Join(Tail(segs))

Components ==
    { [kind |-> "assembled", scheme |-> sc, prefix |-> pf, user |-> us,
       host |-> ho, port |-> po, segs |-> sg, repo |-> re, suffix |-> su,
       slash |-> sl] :
        sc \in Schemes,
        pf \in UNION { {SchemePrefix(x), MixedCase(SchemePrefix(x))} : x \in Schemes },
        us \in GivenUsers, ho \in GivenHosts, po \in GivenPorts,
        sg \in SeqsUpTo(GivenSegs, MaxSegs), re \in GivenRepos,
        su \in GivenSuffixes, sl \in BOOLEAN }

\* The parts that fit the scheme: its own prefix in some letter case, a user
\* only for ssh and scp, a port only where the form has one.
WellFormed(c) ==
    /\ c.prefix \in {SchemePrefix(c.scheme), MixedCase(SchemePrefix(c.scheme))}
    /\ c.scheme \notin {"ssh", "scp"} => c.user = <<>>
    /\ c.scheme = "scp" => c.port = <<>>

Assemble(c) ==
    c.prefix
        \o (IF c.user # <<>> THEN c.user \o <<"@">> ELSE <<>>)
        \o c.host
        \o (IF c.port # <<>> THEN <<":">> \o c.port ELSE <<>>)
        \o (IF c.scheme = "scp" THEN <<":">> ELSE <<"/">>)
        \o Join(c.segs \o <<c.repo>>)
        \o c.suffix
        \o (IF c.slash THEN <<"/">> ELSE <<>>)

\* The arguments the formatters are called with.
FormatUsers == {ImplicitUser, DefaultUser}

FormatPorts == {ImplicitPort, 8080, MaxUint16}

InitFormat ==
    /\ \/ /\ given \in {c \in Components : WellFormed(c)}
          /\ url = Assemble(given)
       \/ /\ given = NoGiven
          /\ url \in TestURLs \cup AtSignInPathURLs \cup IrregularURLs
    /\ gitURL = NilGitURL
    /\ err = NilError
    /\ pc = "init"
    /\ call = NoCall
    /\ out = <<>>
    /\ src = NilGitURL

Called(fn, user, port, isSecure, withSuffix) ==
    [fn |-> fn, user |-> user, port |-> port, isSecure |-> isSecure,
     withSuffix |-> withSuffix]

CallToSSHFormat ==
    /\ pc = "parsed"
    /\ ~gitURL.nil
    /\ \E user \in FormatUsers, port \in FormatPorts, withSuffix \in BOOLEAN :
          /\ out' = ToSSHFormat(gitURL, user, port, withSuffix)
          /\ call' = Called("ToSSHFormat", user, port, FALSE, withSuffix)
    /\ pc' = "formatted"
    /\ UNCHANGED <<url, gitURL, err, given, src>>

CallToGitFormat ==
    /\ pc = "parsed"
    /\ ~gitURL.nil
    /\ \E port \in FormatPorts, withSuffix \in BOOLEAN :
          /\ out' = ToGitFormat(gitURL, port, withSuffix)
          /\ call' = Called("ToGitFormat", <<>>, port, FALSE, withSuffix)
    /\ pc' = "formatted"
    /\ UNCHANGED <<url, gitURL, err, given, src>>

CallToHTTPFormat ==
    /\ pc = "parsed"
    /\ ~gitURL.nil
    /\ \E port \in FormatPorts, isSecure \in BOOLEAN, withSuffix \in BOOLEAN :
          /\ out' = ToHTTPFormat(gitURL, port, isSecure, withSuffix)
          /\ call' = Called("ToHTTPFormat", <<>>, port, isSecure, withSuffix)
    /\ pc' = "formatted"
    /\ UNCHANGED <<url, gitURL, err, given, src>>

CallToFTPFormat ==
    /\ pc = "parsed"
    /\ ~gitURL.nil
    /\ \E port \in FormatPorts, isSecure \in BOOLEAN, withSuffix \in BOOLEAN :
          /\ out' = ToFTPFormat(gitURL, port, isSecure, withSuffix)
          /\ call' = Called("ToFTPFormat", <<>>, port, isSecure, withSuffix)
    /\ pc' = "formatted"
    /\ UNCHANGED <<url, gitURL, err, given, src>>

CallToSCPFormat ==
    /\ pc = "parsed"
    /\ ~gitURL.nil
    /\ \E user \in FormatUsers, withSuffix \in BOOLEAN :
          /\ out' = ToSCPFormat(gitURL, user, withSuffix)
          /\ call' = Called("ToSCPFormat", user, ImplicitPort, FALSE, withSuffix)
    /\ pc' = "formatted"
    /\ UNCHANGED <<url, gitURL, err, given, src>>

\* The caller passes a formatter's output back to NewGitURL, keeping the
\* entity it formatted in src.
CallNewGitURLOnOutput ==
    /\ pc = "formatted"
    /\ LET r == NewGitURL(out)
       IN  /\ gitURL' = r.gitURL
           /\ err' = r.err
    /\ src' = gitURL
    /\ url' = out
    /\ pc' = "reparsed"
    /\ UNCHANGED <<given, call, out>>

NextFormat ==
    \/ CallNewGitURL
    \/ CallToSSHFormat
    \/ CallToGitFormat
    \/ CallToHTTPFormat
    \/ CallToFTPFormat
    \/ CallToSCPFormat
    \/ CallNewGitURLOnOutput

SpecFormat == InitFormat /\ [][NextFormat]_vars

(***************************************************************************)
(* The vocabulary of the properties, stated on the input text itself.      *)
(***************************************************************************)
Chars(s) == {s[i] : i \in 1..Len(s)}

StartsWithFold(u, p) ==
    /\ Len(u) >= Len(p)
    /\ \A i \in 1..Len(p) : Fold(u[i]) = Fold(p[i])

EndsWithFold(u, p) ==
    /\ Len(u) >= Len(p)
    /\ \A i \in 1..Len(p) : Fold(u[Len(u) - Len(p) + i]) = Fold(p[i])

\* The scheme whose prefix the input starts with, "scp" when it has none.
InputScheme(u) ==
    IF \E sc \in Schemes \ {"scp"} : StartsWithFold(u, SchemePrefix(sc))
    THEN CHOOSE sc \in Schemes \ {"scp"} : StartsWithFold(u, SchemePrefix(sc))
    ELSE "scp"

AfterPrefix(u) ==
    SubSeq(u, Len(SchemePrefix(InputScheme(u))) + 1, Len(u))

\* The position of the first c in s, Len(s) + 1 when s holds none.
FirstPos(s, c) ==
    IF c \in Chars(s)
    THEN CHOOSE i \in 1..Len(s) : s[i] = c /\ \A j \in 1..(i - 1) : s[j] # c
    ELSE Len(s) + 1

Before(s, c) == SubSeq(s, 1, FirstPos(s, c) - 1)

After(s, c) == SubSeq(s, FirstPos(s, c) + 1, Len(s))

\* The text between the scheme prefix and the first "/".
Authority(u) == Before(AfterPrefix(u), "/")

\* The host[:port] text: the authority, for ssh after its "user@".
HostSegment(u) ==
    IF InputScheme(u) = "ssh" /\ "@" \in Chars(Authority(u))
    THEN After(Authority(u), "@")
    ELSE Authority(u)

RECURSIVE DecimalValue(_)
DecimalValue(t) ==
    IF Len(t) = 0 THEN 0
    ELSE DecimalValue(SubSeq(t, 1, Len(t) - 1)) * 10 + DigitValue(t[Len(t)])

RECURSIVE StripZeros(_)
StripZeros(t) ==
    IF Len(t) > 1 /\ t[1] = "0" THEN StripZeros(Tail(t)) ELSE t

\* A non-empty base-10 digit string whose value is at most 65535.
ValidPortText(t) ==
    /\ Len(t) > 0
    /\ \A i \in 1..Len(t) : IsDigit(t[i])
    /\ Len(StripZeros(t)) <= 5
    /\ DecimalValue(StripZeros(t)) <= 65535

Succeeded == pc = "parsed" /\ ~gitURL.nil

(***************************************************************************)
(* C2: a successfully parsed input with no ":" between the scheme prefix   *)
(* and the first "/" has the default port of its scheme (ssh 22, git 9418, *)
(* http 80, https 443, ftp 21, ftps 990), and a successfully parsed input  *)
(* with no scheme prefix has port 22.                                      *)
(***************************************************************************)
C2_DefaultPort ==
    Succeeded =>
        IF InputScheme(url) = "scp" THEN gitURL.port = 22
        ELSE ":" \notin Chars(Authority(url))
                => gitURL.port = SchemeDefaultPort(InputScheme(url))

(***************************************************************************)
(* C3: for a scheme-prefixed input whose host segment holds a ":" and is   *)
(* followed by a "/", the text between that ":" and the "/" is the port    *)
(* text: NewGitURL succeeds with its value as port exactly when it is a    *)
(* valid port text, and otherwise returns nil and the illegal-port error   *)
(* carrying the text.  C3_PortText states it for every such input;         *)
(* C3_PortTextWithPath for those where something follows the "/", which    *)
(* leaves out the inputs removeSuffix strips that "/" from.                *)
(***************************************************************************)
PortTextOutcome(t) ==
    IF ValidPortText(t)
    THEN ~gitURL.nil /\ err = NilError /\ gitURL.port = DecimalValue(StripZeros(t))
    ELSE gitURL = NilGitURL /\ err = ErrIllegalPort(t)

C3_PortText ==
    (/\ pc = "parsed"
     /\ InputScheme(url) # "scp"
     /\ "/" \in Chars(AfterPrefix(url))
     /\ ":" \in Chars(HostSegment(url)))
        => PortTextOutcome(After(HostSegment(url), ":"))

C3_PortTextWithPath ==
    (/\ pc = "parsed"
     /\ InputScheme(url) # "scp"
     /\ "/" \in Chars(AfterPrefix(url))
     /\ After(AfterPrefix(url), "/") # <<>>
     /\ ":" \in Chars(HostSegment(url)))
        => PortTextOutcome(After(HostSegment(url), ":"))

(***************************************************************************)
(* C4: a scheme-prefixed input with no "/" after the host fails with       *)
(* "missing path to repo", an input with no scheme prefix and no ":" fails *)
(* with "expected ':'", and both return a nil entity.                      *)
(***************************************************************************)
C4_MissingSeparators ==
    pc = "parsed" =>
        /\ (InputScheme(url) # "scp" /\ "/" \notin Chars(AfterPrefix(url)))
              => gitURL = NilGitURL /\ err = ErrMissingPath
        /\ (InputScheme(url) = "scp" /\ ":" \notin Chars(url))
              => gitURL = NilGitURL /\ err = ErrExpectedColon

(***************************************************************************)
(* C7: every entity NewGitURL returns has a non-empty host and a non-empty *)
(* repo.                                                                   *)
(***************************************************************************)
C7_HostRepoNonEmpty ==
    Succeeded => gitURL.host # <<>> /\ gitURL.repo # <<>>

(***************************************************************************)
(* C8: the path of every entity NewGitURL returns neither starts nor ends  *)
(* with "/".                                                               *)
(***************************************************************************)
C8_PathNoEdgeSlash ==
    Succeeded =>
        \/ gitURL.path = <<>>
        \/ gitURL.path[1] # "/" /\ gitURL.path[Len(gitURL.path)] # "/"

(***************************************************************************)
(* C9: for an input u that parses successfully and ends neither in "/" nor *)
(* (in any letter case) in ".git", the inputs u + ".git", u + ".git/" and  *)
(* u + "/", with ".git" in any letter case, parse successfully to entities *)
(* with the protocol, port, user, host, path and repo of u's entity; only  *)
(* raw differs.                                                            *)
(***************************************************************************)
EndsNeither(u) ==
    /\ Len(u) = 0 \/ u[Len(u)] # "/"
    /\ ~EndsWithFold(u, suffixGit)

SuffixCases == {suffixGit, <<".", "G", "I", "T">>, <<".", "G", "i", "t">>}

Variants(u) ==
    {u \o <<"/">>} \cup {u \o sf : sf \in SuffixCases}
        \cup {u \o sf \o <<"/">> : sf \in SuffixCases}

SameButRaw(a, b) ==
    /\ a.protocol = b.protocol
    /\ a.port = b.port
    /\ a.user = b.user
    /\ a.host = b.host
    /\ a.path = b.path
    /\ a.repo = b.repo

C9_TrailingNormalization ==
    (Succeeded /\ EndsNeither(url)) =>
        \A v \in Variants(url) :
            LET r == NewGitURL(v)
            IN  /\ ~r.gitURL.nil
                /\ r.err = NilError
                /\ SameButRaw(r.gitURL, gitURL)
                /\ r.gitURL.raw = v

C9_Witness ==
    /\ Succeeded
    /\ url = prefixSSH \o adminAt \o gerritHost
                 \o <<":", "2", "9", "4", "1", "8", "/">> \o allProjects
    /\ EndsNeither(url)
    /\ NewGitURL(url \o <<".", "G", "I", "T", "/">>).gitURL.repo = allProjects
    /\ gitURL.repo = allProjects

(***************************************************************************)
(* C1: an assembled input                                                  *)
(*   <scheme>://[user@]host[:port]/seg1/.../segN/repo[.git][/]             *)
(* or [user@]host:seg1/.../segN/repo[.git][/] parses successfully to the   *)
(* protocol of its scheme and to the user, host, joined segments and repo  *)
(* it was assembled from.  C1_WellFormedParse states it for every repo not *)
(* ending in ".git" as written; C1_WellFormedParseFold for every repo not  *)
(* ending in ".git" in any letter case.                                    *)
(***************************************************************************)
EndsWithExact(u, p) ==
    /\ Len(u) >= Len(p)
    /\ SubSeq(u, Len(u) - Len(p) + 1, Len(u)) = p

ParsedAsGiven ==
    /\ ~gitURL.nil
    /\ err = NilError
    /\ gitURL.protocol = SchemeProtocol(given.scheme)
    /\ gitURL.user = given.user
    /\ gitURL.host = given.host
    /\ gitURL.path = Join(given.segs)
    /\ gitURL.repo = given.repo

C1_WellFormedParse ==
    (/\ pc = "parsed"
     /\ given.kind = "assembled"
     /\ ~EndsWithExact(given.repo, suffixGit))
        => ParsedAsGiven

C1_WellFormedParseFold ==
    (/\ pc = "parsed"
     /\ given.kind = "assembled"
     /\ ~EndsWithFold(given.repo, suffixGit))
        => ParsedAsGiven

C1_Witness ==
    /\ pc = "parsed"
    /\ given.kind = "assembled"
    /\ given.scheme = "scp"
    /\ given.user = DefaultUser
    /\ Len(given.segs) = 2
    /\ given.suffix = suffixGit
    /\ given.slash
    /\ ~EndsWithFold(given.repo, suffixGit)
    /\ gitURL.path = <<"p", "/", "p">>
    /\ gitURL.repo = <<"g", "i", "t">>

(***************************************************************************)
(* C5: parsing an assembled input u with its scheme prefix as giturl.go    *)
(* writes it, and then calling the formatter of the same scheme with the   *)
(* user, the port (0 when u has no port text) and the ".git" presence of   *)
(* u, returns u with at most one trailing "/" removed.                     *)
(***************************************************************************)
PortArgument(c) == IF c.port = <<>> THEN 0 ELSE DecimalValue(c.port)

SameSchemeCall(c) ==
    CASE c.scheme = "ssh" ->
            Called("ToSSHFormat", c.user, PortArgument(c), FALSE, c.suffix # <<>>)
      [] c.scheme = "git" ->
            Called("ToGitFormat", <<>>, PortArgument(c), FALSE, c.suffix # <<>>)
      [] c.scheme \in {"http", "https"} ->
            Called("ToHTTPFormat", <<>>, PortArgument(c), c.scheme = "https",
                   c.suffix # <<>>)
      [] c.scheme \in {"ftp", "ftps"} ->
            Called("ToFTPFormat", <<>>, PortArgument(c), c.scheme = "ftps",
                   c.suffix # <<>>)
      [] c.scheme = "scp" ->
            Called("ToSCPFormat", c.user, ImplicitPort, FALSE, c.suffix # <<>>)

C5_RoundTrip ==
    (/\ pc = "formatted"
     /\ given.kind = "assembled"
     /\ given.prefix = SchemePrefix(given.scheme)
     /\ ~EndsWithFold(given.repo, suffixGit)
     /\ call = SameSchemeCall(given))
        => out = url \/ out \o <<"/">> = url

(***************************************************************************)
(* C6: each formatter returns exactly its scheme prefix, "user@" iff the   *)
(* user argument is non-empty (ToSSHFormat, ToSCPFormat), the entity's     *)
(* host, ":" and the decimal port iff the port argument is not 0, "/" (":" *)
(* and no prefix or port for ToSCPFormat), the entity's path, "/", the     *)
(* entity's repo, and ".git" iff withSuffix; the entity's own user, port   *)
(* and protocol do not occur in it.                                        *)
(***************************************************************************)
DigitCount(n) ==
    IF n < 10 THEN 1 ELSE IF n < 100 THEN 2 ELSE IF n < 1000 THEN 3
    ELSE IF n < 10000 THEN 4 ELSE 5

PowerOfTen(k) ==
    CASE k = 0 -> 1 [] k = 1 -> 10 [] k = 2 -> 100 [] k = 3 -> 1000 [] k = 4 -> 10000

\* The decimal text of a 16-bit n, digit by digit.
DecimalText(n) ==
    [i \in 1..DigitCount(n) |->
        DigitChars[((n \div PowerOfTen(DigitCount(n) - i)) % 10) + 1]]

ExpectedPrefix(c) ==
    CASE c.fn = "ToSSHFormat" -> <<"s", "s", "h", ":", "/", "/">>
      [] c.fn = "ToGitFormat" -> <<"g", "i", "t", ":", "/", "/">>
      [] c.fn = "ToHTTPFormat" /\ ~c.isSecure -> <<"h", "t", "t", "p", ":", "/", "/">>
      [] c.fn = "ToHTTPFormat" /\ c.isSecure -> <<"h", "t", "t", "p", "s", ":", "/", "/">>
      [] c.fn = "ToFTPFormat" /\ ~c.isSecure -> <<"f", "t", "p", ":", "/", "/">>
      [] c.fn = "ToFTPFormat" /\ c.isSecure -> <<"f", "t", "p", "s", ":", "/", "/">>
      [] c.fn = "ToSCPFormat" -> <<>>

ExpectedOutput(e, c) ==
    ExpectedPrefix(c)
        \o (IF c.fn \in {"ToSSHFormat", "ToSCPFormat"} /\ c.user # <<>>
            THEN c.user \o <<"@">> ELSE <<>>)
        \o e.host
        \o (IF c.fn # "ToSCPFormat" /\ c.port # 0
            THEN <<":">> \o DecimalText(c.port) ELSE <<>>)
        \o (IF c.fn = "ToSCPFormat" THEN <<":">> ELSE <<"/">>)
        \o e.path \o <<"/">> \o e.repo
        \o (IF c.withSuffix THEN <<".", "g", "i", "t">> ELSE <<>>)

C6_FormatterOutput ==
    pc = "formatted" => out = ExpectedOutput(gitURL, call)

C6_Witness ==
    /\ pc = "formatted"
    /\ url = prefixSSH \o gitAt \o gitlabCom \o <<"/">> \o charlieWto
                 \o <<"/">> \o bombGit
    /\ gitURL.user = DefaultUser
    /\ gitURL.port = 22
    /\ call = Called("ToHTTPFormat", <<>>, 0, FALSE, FALSE)
    /\ out = prefixHTTP \o gitlabCom \o <<"/">> \o charlieWto
                 \o <<"/", "b", "o", "m", "b">>

(***************************************************************************)
(* C10: for an entity e with a non-empty host and repo free of "@", ":"    *)
(* and "/", a repo not ending in ".git" in any letter case and a path that *)
(* is empty or "/"-joined such segments, and for every formatter called    *)
(* with a user free of "@", ":" and "/", NewGitURL of the formatter's      *)
(* output succeeds with the host, path and repo of e, the formatter's      *)
(* scheme as protocol, and as port the port argument, or the scheme's      *)
(* default when the argument is 0 or the formatter takes none.             *)
(***************************************************************************)
FreeOfSeparators(t) == Chars(t) \cap {"@", ":", "/"} = {}

SegmentsJoined(path) ==
    \/ path = <<>>
    \/ /\ Chars(path) \cap {"@", ":"} = {}
       /\ path[1] # "/"
       /\ path[Len(path)] # "/"
       /\ \A i \in 1..(Len(path) - 1) : ~(path[i] = "/" /\ path[i + 1] = "/")

Convertible(e) ==
    /\ ~e.nil
    /\ e.host # <<>> /\ FreeOfSeparators(e.host)
    /\ e.repo # <<>> /\ FreeOfSeparators(e.repo)
    /\ ~EndsWithFold(e.repo, suffixGit)
    /\ SegmentsJoined(e.path)

CallScheme(c) ==
    CASE c.fn = "ToSSHFormat" -> "ssh"
      [] c.fn = "ToGitFormat" -> "git"
      [] c.fn = "ToHTTPFormat" -> IF c.isSecure THEN "https" ELSE "http"
      [] c.fn = "ToFTPFormat" -> IF c.isSecure THEN "ftps" ELSE "ftp"
      [] c.fn = "ToSCPFormat" -> "scp"

C10_CrossSchemeConversion ==
    (/\ pc = "reparsed"
     /\ Convertible(src)
     /\ FreeOfSeparators(call.user))
        => /\ ~gitURL.nil
           /\ err = NilError
           /\ gitURL.host = src.host
           /\ gitURL.path = src.path
           /\ gitURL.repo = src.repo
           /\ gitURL.protocol = SchemeProtocol(CallScheme(call))
           /\ gitURL.port = IF call.fn # "ToSCPFormat" /\ call.port # 0
                            THEN call.port
                            ELSE SchemeDefaultPort(CallScheme(call))

C10_Witness ==
    /\ pc = "reparsed"
    /\ Convertible(src)
    /\ src.protocol = ProtocolTypeSCP
    /\ src.path = <<>>
    /\ call = Called("ToFTPFormat", <<>>, MaxUint16, TRUE, TRUE)
    /\ gitURL.protocol = ProtocolTypeFTPs
    /\ gitURL.port = 65535
    /\ gitURL.path = <<>>
    /\ gitURL.repo = src.repo

====
